---- MODULE Spec2Model ----
(***************************************************************************)
(* A model of src/model/layers/Attention.py: the attention layers and the  *)
(* encoder / decoder stacks built from them.                               *)
(*                                                                         *)
(* A tensor is a record [ok, shape, data, err]: `shape` is the sequence of *)
(* its sizes and `data` its elements in row-major (contiguous) order, so   *)
(* that view, unfold, permute and the batched products move elements the   *)
(* way the tensor library does.  A raised exception is a tensor with       *)
(* ok = FALSE; every operation propagates it, as Python does.              *)
(*                                                                         *)
(* Numbers are integers (fixed point): sums and products are exact,        *)
(* divisions round down, exponentials are taken to base 2 with ExpBits     *)
(* fractional bits and underflow to 0 below that.  The softmax weights are *)
(* kept as exact fractions data[i] / den[i].                               *)
(***************************************************************************)
EXTENDS Integers, Sequences, FiniteSets, TLC

(* ------------------------------ bounds -------------------------------- *)
MaxB == 2
MaxT == 3
MaxD == 4
MaxHeads == 2

(* ------------------------- tensor primitives -------------------------- *)
\* SubSeq makes the element sequence a stored tuple, computed once.
Tensor(shape, data) ==
    [ok |-> TRUE, shape |-> SubSeq(shape, 1, Len(shape)),
     data |-> SubSeq(data, 1, Len(data)), err |-> ""]

Raise(e) == [ok |-> FALSE, shape |-> <<>>, data |-> <<>>, err |-> e]

None == [ok |-> TRUE, shape |-> <<>>, data |-> <<>>, err |-> "None"]

RECURSIVE Prod(_)
Prod(s) == IF Len(s) = 0 THEN 1 ELSE s[1] * Prod(Tail(s))

RECURSIVE Sum(_, _, _)
Sum(f, lo, hi) == IF lo > hi THEN 0 ELSE f[lo] + Sum(f, lo + 1, hi)

Rank(t) == Len(t.shape)

Numel(t) == Len(t.data)

LastDim(t) == t.shape[Len(t.shape)]

\* The leading sizes of a shape (all but the last k).
Lead(shape, k) == SubSeq(shape, 1, Len(shape) - k)

\* Coordinate along dimension d (1-based) of the element at 0-based offset f.
Coord(f, shape, d) == (f \div Prod(SubSeq(shape, d + 1, Len(shape)))) % shape[d]

\* Tensor.view(shape): the same elements in the same order under a new shape;
\* one size may be -1 and is inferred.
View(t, shape) ==
    IF ~t.ok THEN t
    ELSE LET n == Numel(t)
             infer == {i \in 1..Len(shape) : shape[i] = -1}
             known == Prod([i \in 1..Len(shape) |-> IF i \in infer THEN 1 ELSE shape[i]])
         IN  IF \E i \in 1..Len(shape) : shape[i] < -1 THEN Raise("view")
             ELSE IF infer = {}
             THEN IF known = n THEN Tensor(shape, t.data) ELSE Raise("view")
             ELSE IF Cardinality(infer) > 1 \/ known = 0 \/ n % known # 0
             THEN Raise("view")
             ELSE Tensor([i \in 1..Len(shape) |->
                             IF i \in infer THEN n \div known ELSE shape[i]], t.data)

\* Swap the last two dimensions (transpose(-2, -1); transpose(1, 2) at rank 3).
TransposeLast(t) ==
    IF ~t.ok THEN t
    ELSE IF Rank(t) < 2 THEN Raise("transpose")
    ELSE LET r == Rank(t)
             a == t.shape[r - 1]
             b == t.shape[r]
             shape == [i \in 1..r |-> IF i = r - 1 THEN b ELSE IF i = r THEN a ELSE t.shape[i]]
         IN  Tensor(shape,
                    [i \in 1..Numel(t) |->
                        LET f == i - 1
                            n == f \div (a * b)
                            y == (f % (a * b)) \div a
                            x == f % a
                        IN  t.data[1 + n * a * b + x * b + y]])

\* Batched matrix product over the last two dimensions (torch.matmul on
\* tensors of equal rank; torch.bmm at rank 3).
Matmul(a, b) ==
    IF ~a.ok THEN a
    ELSE IF ~b.ok THEN b
    ELSE IF Rank(a) < 3 \/ Rank(a) # Rank(b) \/ Lead(a.shape, 2) # Lead(b.shape, 2)
            \/ LastDim(a) # b.shape[Rank(b) - 1]
    THEN Raise("matmul")
    ELSE LET r == Rank(a)
             n == a.shape[r - 1]
             m == a.shape[r]
             p == b.shape[r]
             shape == [i \in 1..r |-> IF i = r THEN p ELSE a.shape[i]]
         IN  Tensor(shape,
                    [i \in 1..(Prod(Lead(a.shape, 2)) * n * p) |->
                        LET f == i - 1
                            g == f \div (n * p)
                            y == (f % (n * p)) \div p
                            x == f % p
                        IN  Sum([j \in 1..m |->
                                    a.data[1 + g * n * m + y * m + (j - 1)]
                                    * b.data[1 + g * m * p + (j - 1) * p + x]], 1, m)])

Bmm(a, b) ==
    IF a.ok /\ b.ok /\ (Rank(a) # 3 \/ Rank(b) # 3) THEN Raise("bmm") ELSE Matmul(a, b)

\* Elementwise sum of two tensors of one shape.
Add(a, b) ==
    IF ~a.ok THEN a
    ELSE IF ~b.ok THEN b
    ELSE IF a.shape # b.shape THEN Raise("add")
    ELSE Tensor(a.shape, [i \in 1..Numel(a) |-> a.data[i] + b.data[i]])

(* ------------------------- numeric primitives ------------------------- *)
\* The fill value of masked_fill.
NegFill == -1000000000

\* Fractional bits of the exponential: 2^d underflows to 0 for d < -ExpBits.
ExpBits == 8

Exp2(d) == IF d < -ExpBits THEN 0 ELSE 2 ^ (ExpBits + d)

\* The integer square root of n, by bisection: lo * lo <= n < hi * hi.
RECURSIVE ISqrtIn(_, _, _)
ISqrtIn(n, lo, hi) ==
    IF hi - lo <= 1 THEN lo
    ELSE LET mid == (lo + hi) \div 2
         IN  IF mid * mid <= n THEN ISqrtIn(n, mid, hi) ELSE ISqrtIn(n, lo, mid)

ISqrt(n) == ISqrtIn(n, 0, 46341)

MaxOf(S) == CHOOSE m \in S : \A x \in S : m >= x

\* scores / head_dim ** 0.5, the root taken with 4 fractional bits.
DivSqrt(t, head_dim) ==
    IF ~t.ok THEN t
    ELSE Tensor(t.shape, [i \in 1..Numel(t) |-> (t.data[i] * 16) \div ISqrt(256 * head_dim)])

\* Whether a mask of shape ms broadcasts to a tensor of shape s (sizes
\* aligned at the right, each equal or 1).
Broadcastable(ms, s) ==
    /\ Len(ms) <= Len(s)
    /\ \A k \in 1..Len(ms) :
          LET d == Len(s) - Len(ms) + k IN ms[k] = s[d] \/ ms[k] = 1

\* The 1-based offset in the mask of the element that broadcasts to the
\* 0-based offset f of a tensor of shape s.
BroadcastOffset(f, ms, s) ==
    1 + Sum([k \in 1..Len(ms) |->
                LET d == Len(s) - Len(ms) + k
                    c == IF ms[k] = 1 THEN 0 ELSE Coord(f, s, d)
                IN  c * Prod(SubSeq(ms, k + 1, Len(ms)))], 1, Len(ms))

\* scores.masked_fill(mask == 0, value)
MaskedFill(t, mask, value) ==
    IF ~t.ok THEN t
    ELSE IF ~Broadcastable(mask.shape, t.shape) THEN Raise("masked_fill")
    ELSE Tensor(t.shape,
                [i \in 1..Numel(t) |->
                    IF mask.data[BroadcastOffset(i - 1, mask.shape, t.shape)] = 0
                    THEN value ELSE t.data[i]])

\* softmax over the last dimension: element i is data[i] / den[i], where
\* data[i] = 2^(score - row maximum) and den[i] is the sum over its row.
Softmax(t) ==
    IF ~t.ok THEN t
    ELSE LET L == LastDim(t)
             R == Numel(t) \div L
             row == SubSeq([r \in 1..R |->
                               LET mx == MaxOf({t.data[(r - 1) * L + j] : j \in 1..L})
                                   nums == SubSeq([j \in 1..L |->
                                                      Exp2(t.data[(r - 1) * L + j] - mx)],
                                                  1, L)
                               IN  [nums |-> nums, den |-> Sum(nums, 1, L)]], 1, R)
             n == Numel(t)
         IN  [ok |-> TRUE, shape |-> t.shape, err |-> "",
              data |-> SubSeq([i \in 1..n |->
                                  row[((i - 1) \div L) + 1].nums[((i - 1) % L) + 1]], 1, n),
              den |-> SubSeq([i \in 1..n |-> row[((i - 1) \div L) + 1].den], 1, n)]

\* Whether the k-th dropout call of a forward pass keeps element i, given
\* the state rng of the random generator.
Keep(rng, k, i) == (rng + k + i) % 2 = 0

\* nn.Dropout(p) on a tensor: the identity unless training with p > 0; then
\* each element is zeroed or scaled by 1 / (1 - p).  p is in percent.
Dropout(t, p, training, rng, k) ==
    IF ~t.ok THEN t
    ELSE IF ~training \/ p = 0 THEN t
    ELSE Tensor(t.shape,
                [i \in 1..Numel(t) |->
                    IF Keep(rng, k, i) THEN (t.data[i] * 100) \div (100 - p) ELSE 0])

\* nn.Dropout(p) on softmax weights, kept as fractions.
DropoutW(w, p, training, rng, k) ==
    IF ~w.ok THEN w
    ELSE IF ~training \/ p = 0 THEN w
    ELSE LET n == Numel(w)
         IN  [w EXCEPT !.data = SubSeq([i \in 1..n |->
                                           IF Keep(rng, k, i) THEN w.data[i] * 100 ELSE 0],
                                       1, n),
                       !.den = SubSeq([i \in 1..n |-> w.den[i] * (100 - p)], 1, n)]

\* The batched product of softmax weights (fractions) with a tensor.
MatmulW(w, b) ==
    IF ~w.ok THEN w
    ELSE IF ~b.ok THEN b
    ELSE LET prod == Matmul(Tensor(w.shape, w.data), b)
             m == LastDim(w)
             p == LastDim(b)
         IN  IF ~prod.ok THEN prod
             ELSE Tensor(prod.shape,
                         [i \in 1..Numel(prod) |->
                             prod.data[i] \div w.den[1 + ((i - 1) \div p) * m]])

\* nn.Linear(in_features, out_features); id seeds its parameters.
Linear(in_features, out_features, id) ==
    [in_features |-> in_features, out_features |-> out_features, id |-> id]

Weight(lin, o, i) == ((lin.id + o * (i + 2) + i) % 3) - 1

Bias(lin, o) == ((lin.id + o) % 3) - 1

\* y = x W^T + b over the last dimension.
ApplyLinear(lin, x) ==
    IF ~x.ok THEN x
    ELSE IF Rank(x) < 1 \/ LastDim(x) # lin.in_features THEN Raise("linear")
    ELSE LET n == lin.in_features
             m == lin.out_features
             shape == [i \in 1..Rank(x) |-> IF i = Rank(x) THEN m ELSE x.shape[i]]
         IN  Tensor(shape,
                    [i \in 1..((Numel(x) \div n) * m) |->
                        LET r == (i - 1) \div m
                            o == (i - 1) % m
                        IN  Sum([j \in 1..n |-> x.data[r * n + j] * Weight(lin, o, j - 1)],
                                1, n) + Bias(lin, o)])

\* nn.LayerNorm(d) with its initial weight 1 and bias 0: each row is centred
\* and divided by its standard deviation.  c[j] = d * (x[j] - mean) is exact;
\* the result has 2 fractional bits.
LayerNorm(d, x) ==
    IF ~x.ok THEN x
    ELSE IF Rank(x) < 1 \/ LastDim(x) # d THEN Raise("layer_norm")
    ELSE LET R == Numel(x) \div d
             stat == SubSeq([r \in 1..R |->
                         LET total == Sum([j \in 1..d |-> x.data[(r - 1) * d + j]], 1, d)
                             sq == Sum([j \in 1..d |->
                                          (d * x.data[(r - 1) * d + j] - total)
                                          * (d * x.data[(r - 1) * d + j] - total)], 1, d)
                             sd == IF sq < 100000000 THEN ISqrt((16 * sq) \div d)
                                   ELSE 4 * ISqrt(sq \div d)
                         IN  [total |-> total, sd |-> IF sd = 0 THEN 1 ELSE sd]], 1, R)
         IN  Tensor(x.shape,
                    [i \in 1..Numel(x) |->
                        LET r == ((i - 1) \div d) + 1
                        IN  ((d * x.data[i] - stat[r].total) * 16) \div stat[r].sd])

\* nn.ReLU
Relu(x) ==
    IF ~x.ok THEN x
    ELSE Tensor(x.shape, [i \in 1..Numel(x) |-> IF x.data[i] > 0 THEN x.data[i] ELSE 0])

\* F.gelu rounded to the nearest integer: gelu(x) is within 0.17 of max(x, 0)
\* at every integer x.
Gelu(x) ==
    IF ~x.ok THEN x
    ELSE Tensor(x.shape, [i \in 1..Numel(x) |-> IF x.data[i] >= 1 THEN x.data[i] ELSE 0])

\* F.pad(x, (0, 0, pad, pad), 'constant', 0) on (B, T, D): zero rows before
\* and after the time axis.
PadTime(x, pad) ==
    IF ~x.ok THEN x
    ELSE IF Rank(x) # 3 THEN Raise("pad")
    ELSE LET B == x.shape[1]
             T == x.shape[2]
             D == x.shape[3]
             L == T + 2 * pad
         IN  Tensor(<<B, L, D>>,
                    [i \in 1..(B * L * D) |->
                        LET b == (i - 1) \div (L * D)
                            t == ((i - 1) % (L * D)) \div D - pad
                            d == (i - 1) % D
                        IN  IF t < 0 \/ t >= T THEN 0 ELSE x.data[1 + b * T * D + t * D + d]])

\* Tensor.unfold(1, size, 1) on (B, L, D): (B, L - size + 1, D, size), window
\* i holding rows i .. i + size - 1.
Unfold(x, size) ==
    IF ~x.ok THEN x
    ELSE IF Rank(x) # 3 \/ size > x.shape[2] \/ size < 1 THEN Raise("unfold")
    ELSE LET B == x.shape[1]
             L == x.shape[2]
             D == x.shape[3]
             N == L - size + 1
         IN  Tensor(<<B, N, D, size>>,
                    [i \in 1..(B * N * D * size) |->
                        LET f == i - 1
                            b == f \div (N * D * size)
                            n == (f % (N * D * size)) \div (D * size)
                            d == (f % (D * size)) \div size
                            k == f % size
                        IN  x.data[1 + b * L * D + (n + k) * D + d]])

\* torch.mean(x, dim=2) on (B, T, W, D).
MeanDim2(x) ==
    IF ~x.ok THEN x
    ELSE IF Rank(x) # 4 THEN Raise("mean")
    ELSE LET B == x.shape[1]
             T == x.shape[2]
             W == x.shape[3]
             D == x.shape[4]
         IN  Tensor(<<B, T, D>>,
                    [i \in 1..(B * T * D) |->
                        LET bt == (i - 1) \div D
                            d == (i - 1) % D
                        IN  Sum([k \in 1..W |-> x.data[1 + bt * W * D + (k - 1) * D + d]],
                                1, W) \div W])

\* torch.cat(ts, dim=-1) of tensors that agree on all but the last size.
Cat(ts) ==
    IF \E k \in 1..Len(ts) : ~ts[k].ok
    THEN ts[CHOOSE k \in 1..Len(ts) : ~ts[k].ok /\ \A j \in 1..(k - 1) : ts[j].ok]
    ELSE IF \E k \in 1..Len(ts) : Lead(ts[k].shape, 1) # Lead(ts[1].shape, 1)
    THEN Raise("cat")
    ELSE LET w == [k \in 1..Len(ts) |-> LastDim(ts[k])]
             W == Sum(w, 1, Len(ts))
             R == Prod(Lead(ts[1].shape, 1))
             r == Rank(ts[1])
             \* the tensor that column c (0-based) of the result comes from
             src(c) == CHOOSE k \in 1..Len(ts) :
                           Sum(w, 1, k - 1) <= c /\ c < Sum(w, 1, k)
         IN  Tensor([i \in 1..r |-> IF i = r THEN W ELSE ts[1].shape[i]],
                    [i \in 1..(R * W) |->
                        LET row == (i - 1) \div W
                            c == (i - 1) % W
                            k == src(c)
                        IN  ts[k].data[1 + row * w[k] + (c - Sum(w, 1, k - 1))]])

(* ------------------------- MultiHeadAttention ------------------------- *)
\* MultiHeadAttention.__init__
MultiHeadAttention(num_heads, d_model, id) ==
    [num_heads |-> num_heads, d_model |-> d_model,
     query_linear |-> Linear(d_model, d_model, 4 * id),
     key_linear |-> Linear(d_model, d_model, 4 * id + 1),
     value_linear |-> Linear(d_model, d_model, 4 * id + 2),
     output_linear |-> Linear(d_model, d_model, 4 * id + 3)]

\* The view that splits the heads: (batch_size * num_heads, -1, d_model // num_heads).
SplitHeads(self, batch_size, t) ==
    View(t, <<batch_size * self.num_heads, -1, self.d_model \div self.num_heads>>)

\* A faulty join of the heads, with the last two sizes exchanged.
JoinHeadsSwapped(self, batch_size, t) == View(t, <<batch_size, self.d_model, -1>>)

\* The view that joins the heads: (batch_size, -1, d_model).
JoinHeads(self, batch_size, t) == View(t, <<batch_size, -1, self.d_model>>)

\* A faulty masking, which fills the disallowed scores with 0.
ApplyMaskZero(scores, mask) ==
    IF mask = None THEN scores ELSE MaskedFill(scores, mask, 0)

\* scores.masked_fill(mask == 0, -1e9) when a mask is given.
ApplyMask(scores, mask) ==
    IF mask = None THEN scores ELSE MaskedFill(scores, mask, NegFill)

\* MultiHeadAttention.forward; the record holds the output and the
\* intermediate tensors of the pass.
MHAForward(self, query, key, value, mask) ==
    LET batch_size == query.shape[1]
        head_dim == self.d_model \div self.num_heads
        q == ApplyLinear(self.query_linear, query)
        k == ApplyLinear(self.key_linear, key)
        v == ApplyLinear(self.value_linear, value)
        qh == SplitHeads(self, batch_size, q)
        kh == SplitHeads(self, batch_size, k)
        vh == SplitHeads(self, batch_size, v)
        scores == ApplyMask(DivSqrt(Bmm(qh, TransposeLast(kh)), head_dim), mask)
        weights == Softmax(scores)
        attended == MatmulW(weights, vh)
        joined == JoinHeads(self, batch_size, attended)
        output == ApplyLinear(self.output_linear, joined)
    IN  [out |-> output, q |-> q, qh |-> qh, scores |-> scores, weights |-> weights,
         attended |-> attended, joined |-> joined]

(* ---------------------------- SelfAttention --------------------------- *)
\* SelfAttention.__init__
SelfAttention(hidden_dim, num_heads, dropout, training, id) ==
    [hidden_dim |-> hidden_dim, num_heads |-> num_heads,
     head_dim |-> hidden_dim \div num_heads,
     dropout |-> dropout, training |-> training,
     linear_q |-> Linear(hidden_dim, hidden_dim, 4 * id),
     linear_k |-> Linear(hidden_dim, hidden_dim, 4 * id + 1),
     linear_v |-> Linear(hidden_dim, hidden_dim, 4 * id + 2),
     linear_out |-> Linear(hidden_dim, hidden_dim, 4 * id + 3)]

\* The view (batch_size, num_heads, seq_len, head_dim).
SplitHeads4(self, batch_size, seq_len, t) ==
    View(t, <<batch_size, self.num_heads, seq_len, self.head_dim>>)

\* SelfAttention.forward; rng is the state of the random generator.
SAForward(self, x, bias, mask, rng) ==
    LET batch_size == x.shape[1]
        seq_len == x.shape[2]
        k == ApplyLinear(self.linear_k, x)
        q == IF bias # None
             THEN Add(ApplyLinear(self.linear_q, x), ApplyLinear(self.linear_q, bias))
             ELSE ApplyLinear(self.linear_q, x)
        v == ApplyLinear(self.linear_v, x)
        kh == SplitHeads4(self, batch_size, seq_len, k)
        qh == SplitHeads4(self, batch_size, seq_len, q)
        vh == SplitHeads4(self, batch_size, seq_len, v)
        scores == ApplyMask(DivSqrt(Matmul(qh, TransposeLast(kh)), self.head_dim), mask)
        softmaxed == Softmax(scores)
        attn_weights == DropoutW(softmaxed, self.dropout, self.training, rng, 0)
        attended == MatmulW(attn_weights, vh)
        joined == View(attended, <<batch_size, seq_len, self.hidden_dim>>)
        attn_output == Dropout(ApplyLinear(self.linear_out, joined),
                               self.dropout, self.training, rng, 1)
    IN  [out |-> attn_output,
         attn_weights |-> IF attn_output.ok THEN attn_weights ELSE attn_output,
         q |-> q, qh |-> qh, scores |-> scores, softmaxed |-> softmaxed,
         attended |-> attended, joined |-> joined]

(* -------------------- HierarchicalTemporalAttention ------------------- *)
\* What a tensor is, without its elements.
Meta(t) == [ok |-> t.ok, shape |-> t.shape, err |-> t.err]

\* HierarchicalTemporalAttention.__init__
HierarchicalTemporalAttention(hidden_dim, num_heads, dropout, training, window_sizes, num_levels, id) ==
    [hidden_dim |-> hidden_dim, num_heads |-> num_heads,
     window_sizes |-> window_sizes, num_levels |-> num_levels,
     dropout |-> dropout, training |-> training,
     local_attentions |-> [l \in 1..num_levels |->
                              MultiHeadAttention(num_heads, hidden_dim, 8 * id + l)],
     global_attention |-> MultiHeadAttention(num_heads, hidden_dim, 8 * id),
     linear_out |-> Linear(hidden_dim * (num_levels + 1), hidden_dim, 32 * id + 5)]

\* A faulty padding, of window_size - 1 on each side.
PadSizeFull(window_size) == window_size - 1

\* (window_size - 1) // 2
PadSize(window_size) == (window_size - 1) \div 2

\* The windows of one level: pad the time axis, unfold it, and put the
\* window axis before the feature axis.
ExtractWindows(x, window_size) ==
    TransposeLast(Unfold(PadTime(x, PadSize(window_size)), window_size))

\* windows.contiguous().view(batch_size * seq_len, window_size, hidden_dim)
UnfoldedX(x, window_size, windows) ==
    View(windows, <<x.shape[1] * x.shape[2], window_size, x.shape[3]>>)

\* The local attention over the windows of one level, viewed back per
\* timestep and averaged over the window axis.
LevelOut(self, x, level, unfolded_x) ==
    MeanDim2(View(MHAForward(self.local_attentions[level + 1],
                             unfolded_x, unfolded_x, unfolded_x, None).out,
                  <<x.shape[1], x.shape[2], self.window_sizes[level + 1], x.shape[3]>>))

\* What one pass of the loop computed.
LevelPass(self, x, level, windows, unfolded_x) ==
    [window_size |-> self.window_sizes[level + 1], windows |-> Meta(windows),
     unfolded_x |-> Meta(unfolded_x), out |-> LevelOut(self, x, level, unfolded_x)]

\* The pass over the extracted windows of one level.
LevelOver(self, x, level, windows) ==
    LevelPass(self, x, level, windows,
              UnfoldedX(x, self.window_sizes[level + 1], windows))

\* One pass of the loop over the levels (level is 0-based).
HTALevel(self, x, level) ==
    IF level >= Len(self.window_sizes)
    THEN [window_size |-> -1, windows |-> Meta(Raise("IndexError")),
          unfolded_x |-> Meta(Raise("IndexError")), out |-> Raise("IndexError")]
    ELSE LevelOver(self, x, level, ExtractWindows(x, self.window_sizes[level + 1]))

\* The loop `for level in range(self.num_levels)`: the passes made, the
\* last of which may have raised.
RECURSIVE HTALevels(_, _, _)
RECURSIVE HTALevelsAfter(_, _, _, _)
HTALevelsAfter(self, x, level, r) ==
    IF ~r.out.ok THEN <<r>> ELSE <<r>> \o HTALevels(self, x, level + 1)

HTALevels(self, x, level) ==
    IF level >= self.num_levels THEN <<>>
    ELSE HTALevelsAfter(self, x, level, HTALevel(self, x, level))

\* A faulty global attention call, which hands the mask on.
GlobalAttentionMasked(self, x, bias, mask) ==
    MHAForward(self.global_attention, x, x, x, mask).out

\* The global attention call: self.global_attention(x, x, x).
GlobalAttention(self, x, bias, mask) ==
    MHAForward(self.global_attention, x, x, x, None).out

\* The passes of the loop, without the elements of their outputs.
Passes(levels) ==
    SubSeq([l \in 1..Len(levels) |-> [levels[l] EXCEPT !.out = Meta(levels[l].out)]],
           1, Len(levels))

\* torch.cat(local_features, dim=-1), the global features last.
Combined(levels, global_out) ==
    Cat(SubSeq([l \in 1..Len(levels) |-> levels[l].out], 1, Len(levels))
        \o <<global_out>>)

\* self.dropout(self.linear_out(combined_features)), returned with None.
HTAOut(self, levels, combined, rng, k) ==
    [out |-> Dropout(ApplyLinear(self.linear_out, combined),
                     self.dropout, self.training, rng, k),
     weights |-> None, levels |-> Passes(levels), combined |-> Meta(combined)]

\* What follows the loop over the levels: nothing when a pass raised.
HTAFuse(self, x, bias, mask, rng, k, levels) ==
    IF Len(levels) > 0 /\ ~levels[Len(levels)].out.ok
    THEN [out |-> levels[Len(levels)].out, weights |-> None,
          levels |-> Passes(levels), combined |-> Meta(levels[Len(levels)].out)]
    ELSE HTAOut(self, levels, Combined(levels, GlobalAttention(self, x, bias, mask)),
                rng, k)

\* HierarchicalTemporalAttention.forward; k counts the dropout calls made
\* before it in the pass.
HTAForward(self, x, bias, mask, rng, k) ==
    HTAFuse(self, x, bias, mask, rng, k, HTALevels(self, x, 0))

(* -------------------------- TransformerEncoder ------------------------ *)
\* The default of HierarchicalTemporalAttention's num_levels.
DefaultNumLevels == 3

\* TransformerEncoder.__init__
TransformerEncoder(hidden_dim, num_layers, num_heads, dropout, training, window_sizes, id) ==
    [hidden_dim |-> hidden_dim, num_layers |-> num_layers,
     dropout |-> dropout, training |-> training,
     layers |-> [l \in 1..num_layers |->
        [temporal_attention |->
             HierarchicalTemporalAttention(hidden_dim, num_heads, dropout, training,
                                           window_sizes, DefaultNumLevels, 4 * id + l),
         linear1 |-> Linear(hidden_dim, 4 * hidden_dim, 8 * id + 2 * l),
         linear2 |-> Linear(4 * hidden_dim, hidden_dim, 8 * id + 2 * l + 1)]]]

\* The feed-forward sublayer: x = norm2(x + dropout(linear2(gelu(linear1(x))))).
EncoderFFN(self, layer, x, rng, k) ==
    LayerNorm(self.hidden_dim,
              Add(x, Dropout(ApplyLinear(layer.linear2, Gelu(ApplyLinear(layer.linear1, x))),
                             self.dropout, self.training, rng, k)))

\* One pass of the loop over the layers.
EncoderLayer(self, layer, x, bias, mask, rng, k) ==
    EncoderFFN(self, layer,
               LayerNorm(self.hidden_dim,
                         Add(x, Dropout(HTAForward(layer.temporal_attention, x, bias, mask,
                                                   rng, k).out,
                                        self.dropout, self.training, rng, k + 1))),
               rng, k + 2)

RECURSIVE EncoderLoop(_, _, _, _, _, _)
EncoderLoop(self, l, x, bias, mask, rng) ==
    IF l > self.num_layers \/ ~x.ok THEN x
    ELSE EncoderLoop(self, l + 1,
                     EncoderLayer(self, self.layers[l], x, bias, mask, rng, 3 * (l - 1)),
                     bias, mask, rng)

\* TransformerEncoder.forward
EncoderForward(self, x, bias, mask, rng) ==
    [out |-> EncoderLoop(self, 1, x, bias, mask, rng), weights |-> None]

(* ------------------------ TransformerDecoderLayer --------------------- *)
\* TransformerDecoderLayer.__init__
TransformerDecoderLayer(num_heads, d_model, d_ff, dropout, training, id) ==
    [d_model |-> d_model, d_ff |-> d_ff, dropout |-> dropout, training |-> training,
     self_attention |-> MultiHeadAttention(num_heads, d_model, 4 * id),
     enc_attention |-> MultiHeadAttention(num_heads, d_model, 4 * id + 1),
     ff_linear1 |-> Linear(d_model, d_ff, 16 * id + 8),
     ff_linear2 |-> Linear(d_ff, d_model, 16 * id + 9)]

\* A faulty average, which does not halve the sum.
AverageUnhalved(a, b) == Add(a, b)

\* (tgt3 + tgt3_5) / 2
Average(a, b) ==
    LET sum == Add(a, b)
    IN  IF ~sum.ok THEN sum
        ELSE Tensor(sum.shape, [i \in 1..Numel(sum) |-> sum.data[i] \div 2])

\* self.feed_forward: Linear, ReLU, Dropout, Linear, Dropout.
FeedForward(self, x, rng, k) ==
    LET h == Dropout(Relu(ApplyLinear(self.ff_linear1, x)),
                     self.dropout, self.training, rng, k)
    IN  Dropout(ApplyLinear(self.ff_linear2, h), self.dropout, self.training, rng, k + 1)

\* The cross-attention sublayer against one memory; k is its dropout call.
CrossAttend(self, tgt2, memory, memory_mask, rng, k) ==
    LayerNorm(self.d_model,
              Add(tgt2, Dropout(MHAForward(self.enc_attention, tgt2, memory, memory,
                                           memory_mask).out,
                                self.dropout, self.training, rng, k)))

\* The self-attention sublayer: tgt2 = norm1(tgt + dropout(self_attention(...))).
SelfSublayer(self, tgt, tgt_mask, rng, k) ==
    LayerNorm(self.d_model,
              Add(tgt, Dropout(MHAForward(self.self_attention, tgt, tgt, tgt,
                                          tgt_mask).out,
                               self.dropout, self.training, rng, k)))

\* The cross-attention sublayer: against memory alone, or averaged with the
\* one against memo2 when memo2 is not None.
CrossSublayer(self, tgt2, memory, memo2, memory_mask, rng, k) ==
    IF memo2 # None
    THEN Average(CrossAttend(self, tgt2, memory, memory_mask, rng, k),
                 CrossAttend(self, tgt2, memo2, memory_mask, rng, k + 1))
    ELSE CrossAttend(self, tgt2, memory, memory_mask, rng, k)

\* The feed-forward sublayer: norm3(tgt3 + dropout(feed_forward(tgt3))).
DecoderFFN(self, tgt3, second, rng, k) ==
    [out |-> LayerNorm(self.d_model,
                       Add(tgt3, Dropout(FeedForward(self, tgt3, rng, k),
                                         self.dropout, self.training, rng, k + 2))),
     second |-> second, calls |-> k + 3]

\* TransformerDecoderLayer.forward; k counts the dropout calls made before
\* it, `calls` those made up to its return.
DecoderLayerForward(self, tgt, memory, memo2, tgt_mask, memory_mask, rng, k) ==
    DecoderFFN(self,
               CrossSublayer(self, SelfSublayer(self, tgt, tgt_mask, rng, k),
                             memory, memo2, memory_mask, rng, k + 1),
               memo2 # None, rng, IF memo2 # None THEN k + 3 ELSE k + 2)

(* -------------------------- TransformerDecoder ------------------------ *)
\* TransformerDecoder.__init__
TransformerDecoder(num_layers, num_heads, d_model, d_ff, dropout, training, id) ==
    [num_layers |-> num_layers, d_model |-> d_model,
     layers |-> [l \in 1..num_layers |->
                    TransformerDecoderLayer(num_heads, d_model, d_ff, dropout, training,
                                            4 * id + l)]]

\* A faulty choice of the second memory, which hands None on.
SecondMemoryNone(self, memo2, norm_memo1) ==
    IF memo2 # None THEN LayerNorm(self.d_model, memo2) ELSE None

\* The second memory handed to a layer: the normalized memo2, or the
\* normalized first memory when memo2 is None.
SecondMemory(self, memo2, norm_memo1) ==
    IF memo2 # None THEN LayerNorm(self.d_model, memo2) ELSE norm_memo1

\* norm_tgt: the normalized target, with the embedding added when given.
NormTgt(self, tgt, embedding) ==
    IF embedding # None
    THEN LayerNorm(self.d_model, Add(tgt, embedding))
    ELSE LayerNorm(self.d_model, tgt)

\* What was handed to layer i and what it returned.
StepRecord(i, tgt, norm_tgt, norm_memo1, norm_memo2, r) ==
    [layer |-> i, tgt_in |-> tgt, norm_tgt |-> norm_tgt, norm_memo1 |-> norm_memo1,
     norm_memo2 |-> norm_memo2, second |-> r.second, out |-> r.out, calls |-> r.calls]

\* The call of layer i on the normalized inputs.
LayerCallWith(self, i, tgt, norm_tgt, norm_memo1, norm_memo2, tgt_mask, memory_mask, rng, k) ==
    StepRecord(i, tgt, norm_tgt, norm_memo1, norm_memo2,
               DecoderLayerForward(self.layers[i + 1], norm_tgt, norm_memo1, norm_memo2,
                                   tgt_mask, memory_mask, rng, k))

LayerCall(self, i, tgt, norm_tgt, norm_memo1, memo2, tgt_mask, memory_mask, rng, k) ==
    LayerCallWith(self, i, tgt, norm_tgt, norm_memo1,
                  SecondMemory(self, memo2, norm_memo1), tgt_mask, memory_mask, rng, k)

\* One pass of the loop over the layers (i is 0-based): what is handed to
\* layer i and what it returns.
DecoderStep(self, i, tgt, memory, memo2, embedding, tgt_mask, memory_mask, rng, k) ==
    LayerCall(self, i, tgt, NormTgt(self, tgt, embedding),
              LayerNorm(self.d_model, memory), memo2, tgt_mask, memory_mask, rng, k)

\* The loop `for i in range(self.num_layers)`: the layer calls made, the
\* last of which may have raised.
RECURSIVE DecoderLoop(_, _, _, _, _, _, _, _, _, _)
RECURSIVE DecoderLoopAfter(_, _, _, _, _, _, _, _, _)
DecoderLoopAfter(self, i, c, memory, memo2, embedding, tgt_mask, memory_mask, rng) ==
    IF ~c.out.ok THEN <<c>>
    ELSE <<c>> \o DecoderLoop(self, i + 1, c.out, memory, memo2, embedding,
                              tgt_mask, memory_mask, rng, c.calls)

DecoderLoop(self, i, tgt, memory, memo2, embedding, tgt_mask, memory_mask, rng, k) ==
    IF i >= self.num_layers THEN <<>>
    ELSE DecoderLoopAfter(self, i,
                          DecoderStep(self, i, tgt, memory, memo2, embedding, tgt_mask,
                                      memory_mask, rng, k),
                          memory, memo2, embedding, tgt_mask, memory_mask, rng)

\* `return tgt`: the output of the last layer called.
DecoderReturn(tgt, trace) ==
    [out |-> IF Len(trace) = 0 THEN tgt ELSE trace[Len(trace)].out, trace |-> trace]

\* TransformerDecoder.forward
DecoderForward(self, tgt, memory, memo2, embedding, tgt_mask, memory_mask, rng) ==
    DecoderReturn(tgt, DecoderLoop(self, 0, tgt, memory, memo2, embedding, tgt_mask,
                                   memory_mask, rng, 0))

(* ------------------------------- inputs ------------------------------- *)
\* Seeds of the inputs and parameters of the two attention layers.
Seeds == {0, 1}

\* The states of the random generator that drives dropout.
Rngs == {0, 1}

\* Dropout probabilities, in percent.
Dropouts == {0, 50}

\* The dropout probability of the hierarchical attention and of the stacks.
StackDropouts == {50}

\* Configurations of HierarchicalTemporalAttention: the default one, lists
\* shorter and longer than num_levels, and lists with even sizes.
HTAConfigs ==
    {[window_sizes |-> <<3, 5, 7>>, num_levels |-> 3],
     [window_sizes |-> <<1, 3>>, num_levels |-> 2],
     [window_sizes |-> <<3, 5>>, num_levels |-> 3],
     [window_sizes |-> <<1, 3, 5, 7>>, num_levels |-> 3],
     [window_sizes |-> <<3, 2, 5>>, num_levels |-> 3],
     [window_sizes |-> <<4, 1>>, num_levels |-> 2]}

\* The window_sizes given to TransformerEncoder.
WindowLists == {<<3, 5, 7>>, <<1, 3, 5>>, <<3, 5>>, <<1, 3, 5, 7>>, <<3, 2, 5>>}

NumLayers == {1, 2}

FFDims == {3}

\* An input tensor of the given shape.
Gen(shape, seed) ==
    Tensor(shape, [i \in 1..Prod(shape) |-> ((i * i + i + 3 * seed) % 5) - 2])

MaskKinds == {"ones", "causal", "zeros", "first_key", "row0", "bad_shape"}

\* A 0/1 mask for scores of T query rows and Tkv key columns.
MaskOf(kind, T, Tkv) ==
    IF kind = "bad_shape" THEN Tensor(<<T + 1, Tkv>>, [i \in 1..((T + 1) * Tkv) |-> 1])
    ELSE Tensor(<<T, Tkv>>,
                [i \in 1..(T * Tkv) |->
                    LET r == (i - 1) \div Tkv
                        c == (i - 1) % Tkv
                    IN  CASE kind = "ones" -> 1
                          [] kind = "causal" -> IF c <= r THEN 1 ELSE 0
                          [] kind = "zeros" -> 0
                          [] kind = "first_key" -> IF c = 0 THEN 1 ELSE 0
                          [] OTHER -> IF r = 0 THEN 0 ELSE 1])

Masks(T, Tkv) == {None} \cup {MaskOf(kind, T, Tkv) : kind \in MaskKinds}

\* The generator states that matter to a module: one when dropout is off.
RngsOf(dropout, training) == IF training /\ dropout > 0 THEN Rngs ELSE {0}

\* The second memory of a decoder call: none, the first memory itself, or
\* another tensor.
Memo2Choices(memory) == {None, memory, Gen(memory.shape, 2)}

(* ---------------------------- state machine --------------------------- *)
\* self: the module constructed; call: the arguments of the forward call
\* made on it; ret: what the call returned.
VARIABLES self, call, ret

vars == <<self, call, ret>>

NoCall == [op |-> "none"]

MHAModules ==
    {[cls |-> "MultiHeadAttention", m |-> MultiHeadAttention(H, D, id)] :
        H \in 1..MaxHeads, D \in 1..MaxD, id \in Seeds}

SAModules ==
    {[cls |-> "SelfAttention", m |-> SelfAttention(D, H, p, tr, id)] :
        H \in 1..MaxHeads, D \in 1..MaxD, p \in Dropouts, tr \in BOOLEAN, id \in Seeds}

HTAModules ==
    {[cls |-> "HierarchicalTemporalAttention",
      m |-> HierarchicalTemporalAttention(D, H, p, tr, c.window_sizes, c.num_levels, 0)] :
        H \in 1..MaxHeads, D \in 1..MaxD, p \in StackDropouts, tr \in BOOLEAN,
        c \in HTAConfigs}

EncoderModules ==
    {[cls |-> "TransformerEncoder", m |-> TransformerEncoder(D, nl, H, p, tr, ws, 0)] :
        H \in 1..MaxHeads, D \in 1..MaxD, p \in StackDropouts, tr \in BOOLEAN,
        ws \in WindowLists, nl \in NumLayers}

DecoderLayerModules ==
    {[cls |-> "TransformerDecoderLayer",
      m |-> TransformerDecoderLayer(H, D, ff, p, tr, 0)] :
        H \in 1..MaxHeads, D \in 1..MaxD, ff \in FFDims, p \in StackDropouts,
        tr \in BOOLEAN}

DecoderModules ==
    {[cls |-> "TransformerDecoder", m |-> TransformerDecoder(nl, H, D, ff, p, tr, 0)] :
        H \in 1..MaxHeads, D \in 1..MaxD, ff \in FFDims, p \in StackDropouts,
        tr \in BOOLEAN, nl \in NumLayers}

\* The state after the construction of one module of the set, before any call.
Constructed(modules) ==
    /\ self \in modules
    /\ call = NoCall
    /\ ret = NoCall

\* A call of MultiHeadAttention.forward.
ForwardMHA ==
    /\ self.cls = "MultiHeadAttention"
    /\ call = NoCall
    /\ \E B \in 1..MaxB, T \in 1..MaxT, Tkv \in 1..MaxT, seed \in Seeds :
         \E mask \in Masks(T, Tkv) :
            LET query == Gen(<<B, T, self.m.d_model>>, seed)
                key == Gen(<<B, Tkv, self.m.d_model>>, seed + 1)
            IN  /\ call' = [op |-> "MultiHeadAttention.forward", query |-> query,
                            key |-> key, value |-> key, mask |-> mask]
                /\ ret' = MHAForward(self.m, query, key, key, mask)
    /\ UNCHANGED self

\* A call of SelfAttention.forward.
ForwardSA ==
    /\ self.cls = "SelfAttention"
    /\ call = NoCall
    /\ \E B \in 1..MaxB, T \in 1..MaxT, seed \in Seeds, withBias \in BOOLEAN,
          rng \in RngsOf(self.m.dropout, self.m.training) :
         \E mask \in Masks(T, T) :
            LET x == Gen(<<B, T, self.m.hidden_dim>>, seed)
                bias == IF withBias THEN Gen(<<B, T, self.m.hidden_dim>>, seed + 2) ELSE None
            IN  /\ call' = [op |-> "SelfAttention.forward", x |-> x, bias |-> bias,
                            mask |-> mask, rng |-> rng]
                /\ ret' = SAForward(self.m, x, bias, mask, rng)
    /\ UNCHANGED self

\* A call of HierarchicalTemporalAttention.forward.
ForwardHTA ==
    /\ self.cls = "HierarchicalTemporalAttention"
    /\ call = NoCall
    /\ \E B \in 1..MaxB, T \in 1..MaxT, withArgs \in BOOLEAN,
          rng \in RngsOf(self.m.dropout, self.m.training) :
            LET x == Gen(<<B, T, self.m.hidden_dim>>, 0)
                bias == IF withArgs THEN Gen(<<B, T, self.m.hidden_dim>>, 2) ELSE None
                mask == IF withArgs THEN MaskOf("causal", T, T) ELSE None
            IN  /\ call' = [op |-> "HierarchicalTemporalAttention.forward", x |-> x,
                            bias |-> bias, mask |-> mask, rng |-> rng]
                /\ ret' = HTAForward(self.m, x, bias, mask, rng, 0)
    /\ UNCHANGED self

\* A call of TransformerEncoder.forward.
ForwardEncoder ==
    /\ self.cls = "TransformerEncoder"
    /\ call = NoCall
    /\ \E B \in 1..MaxB, T \in 1..MaxT, withArgs \in BOOLEAN,
          rng \in RngsOf(self.m.dropout, self.m.training) :
            LET x == Gen(<<B, T, self.m.hidden_dim>>, 0)
                bias == IF withArgs THEN Gen(<<B, T, self.m.hidden_dim>>, 2) ELSE None
                mask == IF withArgs THEN MaskOf("causal", T, T) ELSE None
            IN  /\ call' = [op |-> "TransformerEncoder.forward", x |-> x,
                            bias |-> bias, mask |-> mask, rng |-> rng]
                /\ ret' = EncoderForward(self.m, x, bias, mask, rng)
    /\ UNCHANGED self

\* A call of TransformerDecoderLayer.forward.
ForwardDecoderLayer ==
    /\ self.cls = "TransformerDecoderLayer"
    /\ call = NoCall
    /\ \E B \in 1..MaxB, T \in 1..MaxT, Tkv \in 1..MaxT, masked \in BOOLEAN,
          rng \in RngsOf(self.m.dropout, self.m.training) :
            LET tgt == Gen(<<B, T, self.m.d_model>>, 0)
                memory == Gen(<<B, Tkv, self.m.d_model>>, 1)
                tgt_mask == IF masked THEN MaskOf("causal", T, T) ELSE None
                memory_mask == IF masked THEN MaskOf("first_key", T, Tkv) ELSE None
            IN  \E memo2 \in Memo2Choices(memory) :
                   /\ call' = [op |-> "TransformerDecoderLayer.forward", tgt |-> tgt,
                               memory |-> memory, memo2 |-> memo2, tgt_mask |-> tgt_mask,
                               memory_mask |-> memory_mask, rng |-> rng]
                   /\ ret' = DecoderLayerForward(self.m, tgt, memory, memo2, tgt_mask,
                                                 memory_mask, rng, 0)
    /\ UNCHANGED self

\* A call of TransformerDecoder.forward.
ForwardDecoder ==
    /\ self.cls = "TransformerDecoder"
    /\ call = NoCall
    /\ \E B \in 1..MaxB, T \in 1..MaxT, Tkv \in 1..MaxT, masked \in BOOLEAN,
          withEmbedding \in BOOLEAN,
          rng \in RngsOf(self.m.layers[1].dropout, self.m.layers[1].training) :
            LET tgt == Gen(<<B, T, self.m.d_model>>, 0)
                memory == Gen(<<B, Tkv, self.m.d_model>>, 1)
                embedding == IF withEmbedding THEN Gen(<<B, T, self.m.d_model>>, 3)
                             ELSE None
                tgt_mask == IF masked THEN MaskOf("causal", T, T) ELSE None
                memory_mask == IF masked THEN MaskOf("first_key", T, Tkv) ELSE None
            IN  \E memo2 \in Memo2Choices(memory) :
                   /\ call' = [op |-> "TransformerDecoder.forward", tgt |-> tgt,
                               memory |-> memory, memo2 |-> memo2,
                               embedding |-> embedding, tgt_mask |-> tgt_mask,
                               memory_mask |-> memory_mask, rng |-> rng]
                   /\ ret' = DecoderForward(self.m, tgt, memory, memo2, embedding,
                                            tgt_mask, memory_mask, rng)
    /\ UNCHANGED self

\* Every module of the file.
Init ==
    Constructed(MHAModules \cup SAModules \cup HTAModules \cup EncoderModules
                \cup DecoderLayerModules \cup DecoderModules)

Next ==
    \/ ForwardMHA
    \/ ForwardSA
    \/ ForwardHTA
    \/ ForwardEncoder
    \/ ForwardDecoderLayer
    \/ ForwardDecoder

Spec == Init /\ [][Next]_vars

\* The two attention layers.
InitAttention == Constructed(MHAModules \cup SAModules)

NextAttention == ForwardMHA \/ ForwardSA

SpecAttention == InitAttention /\ [][NextAttention]_vars

\* The hierarchical attention and the encoder built on it.
InitTemporal == Constructed(HTAModules \cup EncoderModules)

NextTemporal == ForwardHTA \/ ForwardEncoder

SpecTemporal == InitTemporal /\ [][NextTemporal]_vars

\* The decoder layer and the decoder stack.
InitDecoder == Constructed(DecoderLayerModules \cup DecoderModules)

NextDecoder == ForwardDecoderLayer \/ ForwardDecoder

SpecDecoder == InitDecoder /\ [][NextDecoder]_vars

(* ------------------------------ properties ---------------------------- *)
\* What the state says of the call made, whatever the module.
NumHeads ==
    CASE self.cls = "TransformerEncoder" -> self.m.layers[1].temporal_attention.num_heads
      [] self.cls = "TransformerDecoderLayer" -> self.m.self_attention.num_heads
      [] self.cls = "TransformerDecoder" -> self.m.layers[1].self_attention.num_heads
      [] OTHER -> self.m.num_heads

Width ==
    CASE self.cls = "SelfAttention" -> self.m.hidden_dim
      [] self.cls = "HierarchicalTemporalAttention" -> self.m.hidden_dim
      [] self.cls = "TransformerEncoder" -> self.m.hidden_dim
      [] OTHER -> self.m.d_model

Temporal ==
    CASE self.cls = "HierarchicalTemporalAttention" -> self.m
      [] self.cls = "TransformerEncoder" -> self.m.layers[1].temporal_attention
      [] OTHER -> [window_sizes |-> <<>>, num_levels |-> 0]

\* The primary input of the call: query, x or tgt.
Primary ==
    CASE call.op = "MultiHeadAttention.forward" -> call.query
      [] call.op \in {"TransformerDecoderLayer.forward", "TransformerDecoder.forward"}
            -> call.tgt
      [] OTHER -> call.x

Divisible == Width % NumHeads = 0

\* The mask of an attention call, when given, has one entry per score.
MaskFits ==
    CASE call.op = "MultiHeadAttention.forward" ->
            call.mask = None \/ call.mask.shape = <<call.query.shape[2], call.key.shape[2]>>
      [] call.op = "SelfAttention.forward" ->
            call.mask = None \/ call.mask.shape = <<call.x.shape[2], call.x.shape[2]>>
      [] OTHER -> TRUE

\* Every level has a window size, and the sizes of the levels are odd.
WindowsFit ==
    /\ Len(Temporal.window_sizes) >= Temporal.num_levels
    /\ \A l \in 1..Temporal.num_levels : Temporal.window_sizes[l] % 2 = 1

AllOdd(window_sizes) == \A l \in 1..Len(window_sizes) : window_sizes[l] % 2 = 1

\* C1. Shape invariance: whatever a forward returns has the shape (B, T, D)
\* of its primary input, also when the keys and values are of another length;
\* and with D divisible by num_heads, odd window sizes (one for each level)
\* and a mask that fits the scores, every forward does return.
ShapeInvariance ==
    call.op # "none" =>
        /\ ret.out.ok => ret.out.shape = Primary.shape
        /\ (Divisible /\ MaskFits /\ WindowsFit) => ret.out.ok

\* A cross-attention call with keys of another length than the queries
\* returned a tensor of the shape of the query.
ShapeInvarianceWitness ==
    /\ call.op = "MultiHeadAttention.forward"
    /\ call.key.shape[2] # call.query.shape[2]
    /\ call.query.shape[2] >= 2
    /\ self.m.num_heads >= 2
    /\ ret.out.ok
    /\ ret.out.shape = call.query.shape

\* The passes of the loop over the levels (those of odd window size, or all
\* of them) extracted T windows of their width, and the view to (B * T, w, D)
\* was valid.  A pass that found no window size has window_size = -1.
WindowsExtracted(oddOnly) ==
    \A l \in 1..Len(ret.levels) :
        LET pass == ret.levels[l]
            w == pass.window_size
            B == call.x.shape[1]
            T == call.x.shape[2]
            D == call.x.shape[3]
        IN  (w # -1 /\ (oddOnly => w % 2 = 1)) =>
               /\ pass.windows.ok
               /\ pass.windows.shape = <<B, T, w, D>>
               /\ pass.unfolded_x.ok
               /\ pass.unfolded_x.shape = <<B * T, w, D>>

\* C2, as the code has it. Window extraction: for every odd window size w and
\* every T, HierarchicalTemporalAttention.forward extracts exactly T windows
\* of width w, and the view to (B * T, w, D) is valid.
WindowExtractionOdd ==
    call.op = "HierarchicalTemporalAttention.forward" =>
        WindowsExtracted(TRUE)

\* C2, as stated: the same for every window size, even ones included.
WindowExtractionEvery ==
    call.op = "HierarchicalTemporalAttention.forward" =>
        WindowsExtracted(FALSE)

\* A pass with a window wider than the sequence extracted T windows.
WindowExtractionWitness ==
    /\ call.op = "HierarchicalTemporalAttention.forward"
    /\ call.x.shape[2] >= 2
    /\ \E l \in 1..Len(ret.levels) :
          /\ ret.levels[l].window_size = 5
          /\ ret.levels[l].unfolded_x.ok
          /\ ret.levels[l].unfolded_x.shape
                = <<call.x.shape[1] * call.x.shape[2], 5, call.x.shape[3]>>

\* The entry of a (T, T_kv) mask that applies to element i of the weights.
MaskEntry(mask, i) == mask.data[((i - 1) % Len(mask.data)) + 1]

\* Whether the query row of element i of the weights has an allowed key.
RowOpen(w, mask, i) ==
    LET Tkv == w.shape[Len(w.shape)]
        first == ((i - 1) \div Tkv) * Tkv
    IN  \E j \in 1..Tkv : MaskEntry(mask, first + j) # 0

\* Weight i, the fraction data[i] / den[i], is at most 1/1000.
Vanishes(w, i) == w.data[i] * 1000 <= w.den[i]

\* The weights after the softmax of an attention call.
PostSoftmax ==
    IF call.op = "SelfAttention.forward" THEN ret.softmaxed ELSE ret.weights

MaskedCall ==
    /\ call.op \in {"MultiHeadAttention.forward", "SelfAttention.forward"}
    /\ call.mask # None
    /\ PostSoftmax.ok

\* C3, as the code has it. Masking: in MultiHeadAttention.forward and
\* SelfAttention.forward, in every query row that has at least one allowed
\* key position, each disallowed key position has a weight within epsilon
\* of 0 after the softmax.
MaskingOpenRows ==
    MaskedCall =>
        \A i \in 1..Len(PostSoftmax.data) :
            (MaskEntry(call.mask, i) = 0 /\ RowOpen(PostSoftmax, call.mask, i))
                => Vanishes(PostSoftmax, i)

\* C3, as stated: the same in every row, the rows in which every key
\* position is disallowed included.
MaskingEveryRow ==
    MaskedCall =>
        \A i \in 1..Len(PostSoftmax.data) :
            MaskEntry(call.mask, i) = 0 => Vanishes(PostSoftmax, i)

\* A masked call with a row of allowed and disallowed keys, in which the
\* disallowed one got weight 0 and an allowed one a positive weight.
MaskingWitness ==
    /\ MaskedCall
    /\ \E i, j \in 1..Len(PostSoftmax.data) :
          /\ MaskEntry(call.mask, i) = 0
          /\ MaskEntry(call.mask, j) # 0
          /\ (i - 1) \div PostSoftmax.shape[Len(PostSoftmax.shape)]
                = (j - 1) \div PostSoftmax.shape[Len(PostSoftmax.shape)]
          /\ PostSoftmax.data[i] = 0
          /\ PostSoftmax.data[j] > 0

\* The output of the same decoder-layer call without a second memory.
SingleMemoryOut ==
    DecoderLayerForward(self.m, call.tgt, call.memory, None, call.tgt_mask,
                        call.memory_mask, call.rng, 0).out

TwoEqualMemories ==
    /\ call.op = "TransformerDecoderLayer.forward"
    /\ call.memo2 = call.memory

DropoutActive == self.m.training /\ self.m.dropout > 0

\* C4, as the code has it. Two-memory averaging: with dropout inactive (eval
\* mode or p = 0), TransformerDecoderLayer.forward called with memo2
\* identical to memory returns the output of the call with memo2 = None.
TwoMemoryAveragingNoDropout ==
    (TwoEqualMemories /\ ~DropoutActive) => ret.out = SingleMemoryOut

\* C4, as stated: the same for every call, training mode included.
TwoMemoryAveraging ==
    TwoEqualMemories => ret.out = SingleMemoryOut

\* An eval-mode call with memo2 identical to memory returned a tensor.
TwoMemoryAveragingWitness ==
    /\ TwoEqualMemories
    /\ ~DropoutActive
    /\ call.tgt.shape[2] >= 2
    /\ call.tgt_mask # None
    /\ ret.out.ok
    /\ ret.out = SingleMemoryOut

\* C5. Divisibility: whenever D is not divisible by num_heads,
\* MultiHeadAttention.forward and SelfAttention.forward raise an error and
\* return no tensor.
DivisibilityError ==
    (call.op \in {"MultiHeadAttention.forward", "SelfAttention.forward"} /\ ~Divisible)
        => ~ret.out.ok

\* Every row of the weights w (fractions data[i] / den[i]) sums to 1.
RowsSumToOne(w) ==
    LET Tkv == w.shape[Len(w.shape)]
    IN  \A r \in 0..((Len(w.data) \div Tkv) - 1) :
            Sum(w.data, r * Tkv + 1, r * Tkv + Tkv) = w.den[r * Tkv + 1]

\* C6. Weight rows sum to 1: every row of the weights SelfAttention.forward
\* returns, and of the weights MultiHeadAttention.forward applies to the
\* values, sums to 1.
WeightRowsSumToOne ==
    /\ (call.op = "SelfAttention.forward" /\ ret.out.ok) => RowsSumToOne(ret.attn_weights)
    /\ (call.op = "MultiHeadAttention.forward" /\ ret.out.ok) => RowsSumToOne(ret.weights)

\* Element f of head h at position t of batch item b, in a tensor split into
\* heads, is at offset ((b * H + h) * T + t) * hd + f; feature h * hd + f of
\* timestep t of batch item b is at offset (b * T + t) * D + h * hd + f.
SplitOverFeatures(whole, heads) ==
    LET B == Primary.shape[1]
        T == Primary.shape[2]
        D == Width
        H == NumHeads
        hd == D \div H
    IN  \A b \in 0..(B - 1), h \in 0..(H - 1), t \in 0..(T - 1), f \in 0..(hd - 1) :
            heads.data[1 + ((b * H + h) * T + t) * hd + f]
                = whole.data[1 + (b * T + t) * D + h * hd + f]

\* C7. Head split over the feature axis: the split query holds, at head h,
\* position t, index f, the projected feature h * (D / H) + f of timestep t,
\* and the join puts head h's output for timestep t at features
\* h * (D / H) .. (h + 1) * (D / H) - 1 of timestep t.
HeadSplitOverFeatures ==
    (call.op \in {"MultiHeadAttention.forward", "SelfAttention.forward"}
        /\ Divisible /\ ret.out.ok)
        => /\ SplitOverFeatures(ret.q, ret.qh)
           /\ SplitOverFeatures(ret.joined, ret.attended)

\* C8. One local level per configured window size: with odd window sizes
\* and D divisible by num_heads, forward completes, runs one local attention
\* for each configured window size, and concatenates features of width
\* D * (number of window sizes + 1), the input width of linear_out.
OneLevelPerWindowSize ==
    /\ (call.op = "HierarchicalTemporalAttention.forward" /\ Divisible
            /\ AllOdd(self.m.window_sizes))
        => /\ ret.out.ok
           /\ Len(ret.levels) = Len(self.m.window_sizes)
           /\ \A l \in 1..Len(ret.levels) :
                 ret.levels[l].window_size = self.m.window_sizes[l]
           /\ ret.combined.shape[3] = Width * (Len(self.m.window_sizes) + 1)
           /\ ret.combined.shape[3] = self.m.linear_out.in_features
    /\ (call.op = "TransformerEncoder.forward" /\ Divisible
            /\ AllOdd(Temporal.window_sizes))
        => ret.out.ok

\* Other values of the two arguments than the call was made with.
OtherBias == IF call.bias = None THEN Gen(call.x.shape, 3) ELSE None

OtherMask ==
    IF call.mask = None THEN MaskOf("zeros", call.x.shape[2], call.x.shape[2]) ELSE None

\* C9. Noninterference: the output of HierarchicalTemporalAttention.forward
\* and of TransformerEncoder.forward is the same for other values of bias
\* and mask (same x, parameters and dropout draws), and the second value
\* returned is None.
BiasMaskNoninterference ==
    /\ call.op = "HierarchicalTemporalAttention.forward"
        => /\ ret.weights = None
           /\ ret.out = HTAForward(self.m, call.x, OtherBias, OtherMask, call.rng, 0).out
    /\ call.op = "TransformerEncoder.forward"
        => /\ ret.weights = None
           /\ ret.out = EncoderForward(self.m, call.x, OtherBias, OtherMask, call.rng).out

\* A call with a bias and a mask returned a tensor and None.
BiasMaskNoninterferenceWitness ==
    /\ call.op = "HierarchicalTemporalAttention.forward"
    /\ call.bias # None
    /\ call.mask # None
    /\ call.x.shape[2] >= 2
    /\ ret.out.ok
    /\ ret.weights = None

\* C10. The decoder stack: the layers are called in index order, all
\* num_layers of them when forward returns; each is handed norm_att of the
\* memory and a second memory that is not None, the normalized first memory
\* when memo2 is None, so that each call takes the second cross-attention and
\* averaging branch; and the target of layer i is norm_att of the output of
\* layer i - 1 (of tgt for layer 0), with the embedding added when given.
DecoderStackCalls ==
    call.op = "TransformerDecoder.forward" =>
        LET tr == ret.trace
            d == self.m.d_model
        IN  /\ Len(tr) >= 1
            /\ Len(tr) <= self.m.num_layers
            /\ ret.out.ok => Len(tr) = self.m.num_layers
            /\ \A i \in 1..Len(tr) :
                  /\ tr[i].layer = i - 1
                  /\ tr[i].second
                  /\ tr[i].norm_memo2 # None
                  /\ tr[i].norm_memo1 = LayerNorm(d, call.memory)
                  /\ call.memo2 = None => tr[i].norm_memo2 = tr[i].norm_memo1
                  /\ call.memo2 # None => tr[i].norm_memo2 = LayerNorm(d, call.memo2)
                  /\ tr[i].tgt_in = IF i = 1 THEN call.tgt ELSE tr[i - 1].out
                  /\ tr[i].norm_tgt
                        = LayerNorm(d, IF call.embedding # None
                                       THEN Add(tr[i].tgt_in, call.embedding)
                                       ELSE tr[i].tgt_in)
                  /\ i < Len(tr) => tr[i].out.ok

\* A two-layer stack called without memo2 returned after both layers took
\* the second branch.
DecoderStackCallsWitness ==
    /\ call.op = "TransformerDecoder.forward"
    /\ call.memo2 = None
    /\ call.embedding # None
    /\ self.m.num_layers = 2
    /\ ret.out.ok
    /\ Len(ret.trace) = 2
    /\ ret.trace[2].second
    /\ ret.trace[2].norm_memo2 = ret.trace[2].norm_memo1

====
